---- MODULE Spec2Model ----
(* The project workflow engine of src/app.py: the registry active_projects, *)
(* ProjectState, the thread run_project_workflow and the Flask handlers.    *)
(*                                                                          *)
(* The thread and the handlers run concurrently on the same ProjectState,   *)
(* so the thread is modelled statement by statement (threads[p].pc) and a   *)
(* handler as one step; project_status, which reads the status and then the *)
(* counts, is two steps.                                                    *)
(*                                                                          *)
(* Line 83 of app.py iterates over run_workflow(...). The run_workflow of   *)
(* src/workflow/graph.py returns a WorkflowState, which cannot be iterated  *)
(* (RunWorkflowNotIterable). The loop body of lines 84-114 is written for a *)
(* stream of steps, each carrying the accumulated state of the workflow in  *)
(* step.state; that stream is modelled as the environment of the thread     *)
(* (StageYield, StageRaise, StopIteration), one stage per step in the order *)
(* of graph.py's steps.                                                     *)
EXTENDS Integers, Sequences, FiniteSets, TLC

\* ---------------------------------------------------------------- bounds
\* send_message calls per run
MaxPosts == 1
\* messages the stages add to the workflow state, over one run
MaxStageMsgs == 2
\* artifact writes the stages make to the workflow state, over one run
MaxArtifactWrites == 2
\* the last stage of the pipeline that adds messages or writes an artifact;
\* the stages after it only complete
MaxProducingStage == 3
\* datetime.now() readings in the specification of the ProjectState methods
MaxClock == 4
\* largest last_id a poll request carries
MaxCursor == 4
\* the clock value at which a run of two projects is cut off; the posts and
\* the messages and artifacts its stages return count against it
MaxTwoClock == 6

\* ------------------------------------------------------------- constants
None == "None"
\* completed_at = None
NoTime == -1
\* a status that carries no percentage
NoPct == -1

ProjectIds == {"p1"}
\* an id no project was registered under
UnknownIds == {"p0"}
Requirements == {"Build a task tracker"}
FailureDescs == {"connection timeout"}
NotIterable == "'WorkflowState' object is not iterable"
\* message texts: every content is a tuple, so that any two compare
UserTexts == {<< "hello" >>}

\* workflow/graph.py: steps
steps ==
    << "business_analysis", "database_design", "database_implementation",
       "apex_development", "frontend_enhancement", "testing",
       "project_completion" >>

\* app.py: workflow_steps
workflow_steps ==
    << "business_analysis", "database_design", "database_implementation",
       "apex_development", "frontend_enhancement", "qa_testing",
       "project_completion" >>

VARIABLES
    active_projects,   \* project_id -> ProjectState (a dict: the domain grows)
    threads,           \* project_id -> the locals of its run_project_workflow thread
    clock,             \* datetime.now()
    nposts,            \* send_message calls so far
    response,          \* the last response a handler returned
    reader             \* project_id -> a client polling with the returned cursor

vars == << active_projects, threads, clock, nposts, response, reader >>

\* ------------------------------------------------------------- data
EmptyDict == [n \in {} |-> None]

DictSet(d, k, v) == [n \in (DOMAIN d) \cup {k} |-> IF n = k THEN v ELSE d[n]]

Status(name) == [name |-> name, pct |-> NoPct]

\* f"In progress - {int(progress)}% complete"
InProgress(pct) == [name |-> "In progress", pct |-> pct]

\* Python's seq[start:] : a negative start counts from the end, and the
\* start is clamped to the sequence
PySliceFrom(seq, start) ==
    LET n == Len(seq)
        s0 == IF start < 0 THEN start + n ELSE start
        s == IF s0 < 0 THEN 0 ELSE IF s0 > n THEN n ELSE s0
    IN  SubSeq(seq, s + 1, n)

\* ProjectState.__init__
ProjectStateInit(requirements, now) ==
    [ requirements |-> requirements,
      current_agent |-> None,
      status |-> Status("initializing"),
      started_at |-> now,
      completed_at |-> NoTime,
      messages |-> << >>,
      artifacts |-> EmptyDict,
      result |-> None ]

\* add_message as it would be with insert(0, ...) for append(...)
add_message_first(project, sender, content, now) ==
    [project EXCEPT !.messages =
        << [sender |-> sender, content |-> content, timestamp |-> now] >> \o @]

\* ProjectState.add_message (timestamp=None: datetime.now())
add_message(project, sender, content, now) ==
    [project EXCEPT !.messages =
        Append(@, [sender |-> sender, content |-> content, timestamp |-> now])]

\* ProjectState.add_artifact: no test of the name, no return value
add_artifact(project, name, content, artifact_type, agent, now) ==
    [project EXCEPT !.artifacts =
        DictSet(@, name, [content |-> content, type |-> artifact_type,
                          created_by |-> agent, timestamp |-> now])]

\* ProjectState.update_status
update_status(project, status, now) ==
    [project EXCEPT !.status = status,
                    !.completed_at = IF status.name = "completed" THEN now ELSE @]

\* ------------------------------------------------------------- the step stream
\* The state a step of the stream carries (step.state): current_agent,
\* messages, artifacts and completed_steps accumulate over the run.
WorkflowStateInit ==
    [ current_agent |-> "",
      messages |-> << >>,
      artifacts |-> << >>,
      completed_steps |-> << >>,
      started |-> 0,
      writes |-> 0 ]

\* len_at_end is history, no local of the code: the length of the log at the
\* moment the thread set the terminal status (-1 before that)
ThreadInit ==
    [ pc |-> "start", wf |-> WorkflowStateInit, new_messages |-> << >>,
      err |-> None, len_at_end |-> -1 ]

\* msg.type: the first phase's messages are the human ones (the requirements)
MsgType(stage) == IF stage = 1 THEN "human" ELSE "ai"

\* the n messages one stage adds
StageMessages(stage, n) ==
    [j \in 1..n |-> [type |-> MsgType(stage), content |-> << "stage", stage, j >>]]

\* the artifact a stage writes: odd phases write documents under one name,
\* even phases code under the other, so that later phases reuse a name
ArtifactKind(stage) == IF stage % 2 = 1 THEN "document" ELSE "code"
ArtifactName(stage) == IF stage % 2 = 1 THEN "requirements_doc" ELSE "erd"

StageArtifact(stage) ==
    [ name |-> ArtifactName(stage), content |-> << "content", stage >>,
      type |-> ArtifactKind(stage), created_by |-> steps[stage] ]

\* state["artifacts"][name] = artifact: a name already there keeps its place
PutArtifact(arts, a) ==
    IF \E j \in 1..Len(arts) : arts[j].name = a.name
    THEN [j \in 1..Len(arts) |-> IF arts[j].name = a.name THEN a ELSE arts[j]]
    ELSE Append(arts, a)

\* one stage of run_workflow: the phase becomes current and is completed,
\* and what the stage produced joins the state
StageResult(wf, msgs, arts) ==
    LET stage == Len(wf.completed_steps) + 1
    IN  [ current_agent |-> steps[stage],
          messages |-> wf.messages \o msgs,
          artifacts |-> IF arts = << >> THEN wf.artifacts
                        ELSE PutArtifact(wf.artifacts, arts[1]),
          completed_steps |-> Append(wf.completed_steps, steps[stage]),
          started |-> wf.started + 1,
          writes |-> wf.writes + Len(arts) ]

\* ------------------------------------------------------------- start_project
\* lines 149-170: a fresh id, the ProjectState, the initial message, the thread
StartProject(p, requirements) ==
    /\ p \notin DOMAIN active_projects
    /\ active_projects' = active_projects @@
         (p :> add_message(ProjectStateInit(requirements, clock), "System",
                           << "Project initialized. Starting business analysis phase..." >>,
                           clock + 1))
    /\ threads' = threads @@ (p :> ThreadInit)
    /\ reader' = reader @@ (p :> [cursor |-> 0, received |-> << >>])
    /\ clock' = clock + 2
    /\ response' = [op |-> "start_project", code |-> 200, project_id |-> p]
    /\ UNCHANGED nposts

\* start_project statement by statement, for the specification in which
\* two start_project calls and the threads they launch interleave.
\* Which statement a call has reached shows in the state: the project is
\* registered, its log holds the initial message, its thread exists.
InitialMessage == << "Project initialized. Starting business analysis phase..." >>

HasInitialMessage(project) ==
    \E i \in 1..Len(project.messages) :
        project.messages[i].sender = "System"
           /\ project.messages[i].content = InitialMessage

\* lines 149-155: the fresh id, ProjectState(...), active_projects[id] = project
StartRegister(p, requirements) ==
    /\ p \notin DOMAIN active_projects
    /\ p \notin DOMAIN threads
    /\ active_projects' = active_projects @@ (p :> ProjectStateInit(requirements, clock))
    /\ reader' = reader @@ (p :> [cursor |-> 0, received |-> << >>])
    /\ clock' = clock + 1
    /\ UNCHANGED << threads, nposts, response >>

\* lines 157-161: project.add_message("System", "Project initialized. ...")
StartAddMessage(p) ==
    /\ p \in DOMAIN active_projects
    /\ p \notin DOMAIN threads
    /\ ~ HasInitialMessage(active_projects[p])
    /\ active_projects' = [active_projects EXCEPT
          ![p] = add_message(@, "System", InitialMessage, clock)]
    /\ clock' = clock + 1
    /\ UNCHANGED << threads, nposts, response, reader >>

\* lines 163-170 as they would be if the thread were started first, before
\* the project is registered
StartLaunchFirst(p) ==
    /\ p \notin DOMAIN threads
    /\ threads' = threads @@ (p :> ThreadInit)
    /\ response' = [op |-> "start_project", code |-> 200, project_id |-> p]
    /\ UNCHANGED << active_projects, clock, nposts, reader >>

\* lines 163-170: threading.Thread(target=run_project_workflow, ...).start()
\* and the response
StartLaunch(p) ==
    /\ p \in DOMAIN active_projects
    /\ p \notin DOMAIN threads
    /\ HasInitialMessage(active_projects[p])
    /\ threads' = threads @@ (p :> ThreadInit)
    /\ response' = [op |-> "start_project", code |-> 200, project_id |-> p]
    /\ UNCHANGED << active_projects, clock, nposts, reader >>

\* ------------------------------------------------------------- run_project_workflow
Project(p) == active_projects[p]
Thread(p) == threads[p]
Running(p, at) == p \in DOMAIN threads /\ threads[p].pc = at

SetThread(p, t) == threads' = [threads EXCEPT ![p] = t]
SetProject(p, q) == active_projects' = [active_projects EXCEPT ![p] = q]

\* lines 66-69: the registry lookup (outside the try) and update_status("running")
ThreadBegin(p) ==
    /\ Running(p, "start")
    /\ IF p \in DOMAIN active_projects
       THEN /\ SetProject(p, update_status(Project(p), Status("running"), clock))
            /\ SetThread(p, [Thread(p) EXCEPT !.pc = "iter"])
       ELSE /\ SetThread(p, [Thread(p) EXCEPT !.pc = "crashed"])
            /\ UNCHANGED active_projects
    /\ UNCHANGED << clock, nposts, response, reader >>

\* workflow/graph.py run_workflow as it stands: every phase in turn becomes
\* current and is appended to completed_phases, nothing raises, and the
\* WorkflowState is returned
RECURSIVE RunPhases(_, _)
RunPhases(state, todo) ==
    IF todo = << >> THEN state
    ELSE RunPhases([state EXCEPT !.current_phase = Head(todo),
                                 !.completed_phases = Append(@, Head(todo))],
                   Tail(todo))

run_workflow(requirements) ==
    RunPhases([requirements |-> requirements, current_phase |-> "initialization",
               errors |-> << >>, completed_phases |-> << >>], steps)

\* line 83 with that run_workflow: the WorkflowState it returns is a
\* dataclass instance, which is not iterable, so the for statement raises
\* TypeError inside the try, after all the phases have run
RunWorkflowNotIterable(p) ==
    /\ Running(p, "iter")
    /\ Thread(p).wf.started = 0
    /\ LET state == run_workflow(Project(p).requirements)
       IN  SetThread(p, [Thread(p) EXCEPT
              !.pc = "except",
              !.err = NotIterable,
              !.wf.current_agent = state.current_phase,
              !.wf.completed_steps = state.completed_phases,
              !.wf.started = Len(state.completed_phases)])
    /\ UNCHANGED << active_projects, clock, nposts, response, reader >>

\* line 83, the stream app.py is written for: the next stage runs and the
\* stream yields a step carrying the accumulated state
StageYield(p) ==
    /\ Running(p, "iter")
    /\ Len(Thread(p).wf.completed_steps) < Len(steps)
    /\ LET stage == Len(Thread(p).wf.completed_steps) + 1
           produces == stage <= MaxProducingStage
       IN  \E n \in 0..(IF produces THEN MaxStageMsgs - Len(Thread(p).wf.messages)
                         ELSE 0) :
           \E arts \in {<< >>} \cup
                       IF produces /\ Thread(p).wf.writes < MaxArtifactWrites
                       THEN {<< StageArtifact(stage) >>} ELSE {} :
              SetThread(p, [Thread(p) EXCEPT
                  !.pc = "agent",
                  !.wf = StageResult(@, StageMessages(stage, n), arts)])
    /\ UNCHANGED << active_projects, clock, nposts, response, reader >>

\* line 83: the next stage raises
StageRaise(p) ==
    /\ Running(p, "iter")
    /\ Len(Thread(p).wf.completed_steps) < Len(steps)
    /\ \E e \in FailureDescs :
          SetThread(p, [Thread(p) EXCEPT !.pc = "except", !.err = e,
                                         !.wf.started = @ + 1])
    /\ UNCHANGED << active_projects, clock, nposts, response, reader >>

\* line 83: the stream is exhausted, the for statement ends
StopIteration(p) ==
    /\ Running(p, "iter")
    /\ Len(Thread(p).wf.completed_steps) = Len(steps)
    /\ SetThread(p, [Thread(p) EXCEPT !.pc = "result"])
    /\ UNCHANGED << active_projects, clock, nposts, response, reader >>

\* line 88
SetCurrentAgent(p) ==
    /\ Running(p, "agent")
    /\ SetProject(p, [Project(p) EXCEPT !.current_agent = Thread(p).wf.current_agent])
    /\ SetThread(p, [Thread(p) EXCEPT !.pc = "msgs_check"])
    /\ UNCHANGED << clock, nposts, response, reader >>

AfterMessages(wf) == IF Len(wf.artifacts) = 0 THEN "status" ELSE "arts"

\* lines 91-92: if messages and len(messages) > len(project.messages)
CheckMessages(p) ==
    /\ Running(p, "msgs_check")
    /\ LET messages == Thread(p).wf.messages
       IN  SetThread(p, [Thread(p) EXCEPT
              !.pc = IF Len(messages) > 0 /\ Len(messages) > Len(Project(p).messages)
                     THEN "msgs_slice" ELSE AfterMessages(Thread(p).wf)])
    /\ UNCHANGED << active_projects, clock, nposts, response, reader >>

\* line 93: new_messages = messages[len(project.messages):]
SliceMessages(p) ==
    /\ Running(p, "msgs_slice")
    /\ LET new == PySliceFrom(Thread(p).wf.messages, Len(Project(p).messages))
       IN  SetThread(p, [Thread(p) EXCEPT
              !.new_messages = new,
              !.pc = IF new = << >> THEN AfterMessages(Thread(p).wf) ELSE "msgs_add"])
    /\ UNCHANGED << active_projects, clock, nposts, response, reader >>

\* lines 94-96, one turn of the loop
AddNextMessage(p) ==
    /\ Running(p, "msgs_add")
    /\ LET msg == Head(Thread(p).new_messages)
           sender == IF msg.type = "human" THEN "User" ELSE Project(p).current_agent
           rest == Tail(Thread(p).new_messages)
       IN  /\ SetProject(p, add_message(Project(p), sender, msg.content, clock))
           /\ SetThread(p, [Thread(p) EXCEPT
                 !.new_messages = rest,
                 !.pc = IF rest = << >> THEN AfterMessages(Thread(p).wf) ELSE "msgs_add"])
    /\ clock' = clock + 1
    /\ UNCHANGED << nposts, response, reader >>

\* lines 101-107 without the test of line 101
merge_artifact_unguarded(project, a, now) ==
    add_artifact(project, a.name, a.content, a.type, a.created_by, now)

\* lines 101-107: if name not in project.artifacts: project.add_artifact(...)
merge_artifact(project, a, now) ==
    IF a.name \notin DOMAIN project.artifacts
    THEN add_artifact(project, a.name, a.content, a.type, a.created_by, now)
    ELSE project

\* lines 100-107: the loop over artifacts.items(), in the dict's order; the
\* result is the project and the clock after the last turn
RECURSIVE merge_artifacts(_, _, _)
merge_artifacts(project, artifacts, now) ==
    IF artifacts = << >> THEN [project |-> project, now |-> now]
    ELSE merge_artifacts(merge_artifact(project, Head(artifacts), now),
                         Tail(artifacts),
                         IF Head(artifacts).name \notin DOMAIN project.artifacts
                         THEN now + 1 ELSE now)

\* the merge as it would be if the artifacts were kept in one store shared
\* by the projects
MergeArtifactShared(p) ==
    /\ Running(p, "arts")
    /\ LET merged == merge_artifacts(Project(p), Thread(p).wf.artifacts, clock)
       IN  /\ active_projects' =
                 [q \in DOMAIN active_projects |->
                    IF q = p THEN merged.project
                    ELSE merge_artifacts(Project(q), Thread(p).wf.artifacts,
                                         clock).project]
           /\ clock' = merged.now
    /\ SetThread(p, [Thread(p) EXCEPT !.pc = "status"])
    /\ UNCHANGED << nposts, response, reader >>

\* lines 99-107. The thread is the only writer of project.artifacts and a
\* step brings at most one new name, so the turns of the loop are one step.
MergeArtifact(p) ==
    /\ Running(p, "arts")
    /\ LET merged == merge_artifacts(Project(p), Thread(p).wf.artifacts, clock)
       IN  /\ SetProject(p, merged.project)
           /\ clock' = merged.now
    /\ SetThread(p, [Thread(p) EXCEPT !.pc = "status"])
    /\ UNCHANGED << nposts, response, reader >>

\* the progress as it would be with round(progress) for int(progress)
ProgressRounded(completed_steps) ==
    (Len(completed_steps) * 200 + Len(workflow_steps)) \div (2 * Len(workflow_steps))

\* the progress as it would be if it counted the steps still to run
ProgressRemaining(completed_steps) ==
    ((Len(workflow_steps) - Len(completed_steps)) * 100) \div Len(workflow_steps)

\* the progress as it would be over a workflow_steps list one entry short
ProgressOverShortList(completed_steps) ==
    (Len(completed_steps) * 100) \div (Len(workflow_steps) - 1)

\* int((len(completed_steps) / len(workflow_steps)) * 100); for 0..7 of 7
\* the float product truncates to the integer quotient
Progress(completed_steps) == (Len(completed_steps) * 100) \div Len(workflow_steps)

\* lines 110-114
UpdateProgress(p) ==
    /\ Running(p, "status")
    /\ LET completed_steps == Thread(p).wf.completed_steps
       IN  IF completed_steps # << >>
           THEN SetProject(p, update_status(Project(p),
                                InProgress(Progress(completed_steps)), clock))
           ELSE UNCHANGED active_projects
    /\ SetThread(p, [Thread(p) EXCEPT !.pc = "iter"])
    /\ UNCHANGED << clock, nposts, response, reader >>

\* line 117
SetResult(p) ==
    /\ Running(p, "result")
    /\ SetProject(p, [Project(p) EXCEPT !.result = "Project completed successfully."])
    /\ SetThread(p, [Thread(p) EXCEPT !.pc = "completed"])
    /\ UNCHANGED << clock, nposts, response, reader >>

\* line 118
SetCompleted(p) ==
    /\ Running(p, "completed")
    /\ SetProject(p, update_status(Project(p), Status("completed"), clock))
    /\ SetThread(p, [Thread(p) EXCEPT !.pc = "done",
                                      !.len_at_end = Len(Project(p).messages)])
    /\ clock' = clock + 1
    /\ UNCHANGED << nposts, response, reader >>

\* the handler as it would be with a bare "pass": the failure is not reported
HandleExceptionSilent(p) ==
    /\ Running(p, "except")
    /\ SetThread(p, [Thread(p) EXCEPT !.pc = "error"])
    /\ UNCHANGED << active_projects, clock, nposts, response, reader >>

\* the handler as it would be inside the for statement, followed by
\* "continue": the failure is logged and the next stage is pulled
HandleExceptionResumes(p) ==
    /\ Running(p, "except")
    /\ SetProject(p, add_message(Project(p), "System",
                                 << "Error: ", Thread(p).err >>, clock))
    /\ SetThread(p, [Thread(p) EXCEPT !.pc = "iter"])
    /\ clock' = clock + 1
    /\ UNCHANGED << nposts, response, reader >>

\* lines 119-120: except Exception as e: add_message("System", f"Error: {e}")
HandleException(p) ==
    /\ Running(p, "except")
    /\ SetProject(p, add_message(Project(p), "System",
                                 << "Error: ", Thread(p).err >>, clock))
    /\ SetThread(p, [Thread(p) EXCEPT !.pc = "error"])
    /\ clock' = clock + 1
    /\ UNCHANGED << nposts, response, reader >>

\* line 121 as it would be if the handler fell through to lines 117-118
SetErrorFallsThrough(p) ==
    /\ Running(p, "error")
    /\ SetProject(p, update_status(Project(p), Status("error"), clock))
    /\ SetThread(p, [Thread(p) EXCEPT !.pc = "result",
                                      !.len_at_end = Len(Project(p).messages)])
    /\ UNCHANGED << clock, nposts, response, reader >>

\* line 121 as it would be if the thread also cleared a project that has
\* failed out of the registry (del active_projects[project_id])
SetErrorDropsProject(p) ==
    /\ Running(p, "error")
    /\ active_projects' = [q \in DOMAIN active_projects \ {p} |-> active_projects[q]]
    /\ SetThread(p, [Thread(p) EXCEPT !.pc = "done",
                                      !.len_at_end = Len(Project(p).messages)])
    /\ UNCHANGED << clock, nposts, response, reader >>

\* line 121
SetError(p) ==
    /\ Running(p, "error")
    /\ SetProject(p, update_status(Project(p), Status("error"), clock))
    /\ SetThread(p, [Thread(p) EXCEPT !.pc = "done",
                                      !.len_at_end = Len(Project(p).messages)])
    /\ UNCHANGED << clock, nposts, response, reader >>

\* ------------------------------------------------------------- send_message
\* send_message as it would be if it also logged an acknowledgement
SendMessageEcho(p, message) ==
    /\ nposts < MaxPosts
    /\ nposts' = nposts + 1
    /\ IF p \notin DOMAIN active_projects
       THEN /\ response' = [op |-> "send_message", code |-> 404, project_id |-> p]
            /\ UNCHANGED << active_projects, clock >>
       ELSE /\ SetProject(p, add_message(add_message(Project(p), "User", message, clock),
                                         "System", << "Message received" >>, clock + 1))
            /\ clock' = clock + 2
            /\ response' = [op |-> "send_message", code |-> 200, project_id |-> p]
    /\ UNCHANGED << threads, reader >>

\* send_message as it would be if a post put the project back to running
SendMessageReopens(p, message) ==
    /\ nposts < MaxPosts
    /\ nposts' = nposts + 1
    /\ IF p \notin DOMAIN active_projects
       THEN /\ response' = [op |-> "send_message", code |-> 404, project_id |-> p]
            /\ UNCHANGED << active_projects, clock >>
       ELSE /\ SetProject(p, update_status(add_message(Project(p), "User", message, clock),
                                           Status("running"), clock))
            /\ clock' = clock + 1
            /\ response' = [op |-> "send_message", code |-> 200, project_id |-> p]
    /\ UNCHANGED << threads, reader >>

\* send_message as it would be if a post started the workflow of the
\* project again
SendMessageRelaunches(p, message) ==
    /\ nposts < MaxPosts
    /\ nposts' = nposts + 1
    /\ IF p \notin DOMAIN active_projects
       THEN /\ response' = [op |-> "send_message", code |-> 404, project_id |-> p]
            /\ UNCHANGED << active_projects, clock, threads >>
       ELSE /\ SetProject(p, add_message(Project(p), "User", message, clock))
            /\ clock' = clock + 1
            /\ response' = [op |-> "send_message", code |-> 200, project_id |-> p]
            /\ threads' = [q \in DOMAIN threads |->
                              IF q = p THEN ThreadInit ELSE threads[q]]
    /\ UNCHANGED reader

\* lines 210-234, for a request that carries project_id and message (one
\* without them is answered 400 at lines 217-218 before the lookup)
SendMessage(p, message) ==
    /\ nposts < MaxPosts
    /\ nposts' = nposts + 1
    /\ IF p \notin DOMAIN active_projects
       THEN /\ response' = [op |-> "send_message", code |-> 404, project_id |-> p]
            /\ UNCHANGED << active_projects, clock >>
       ELSE /\ SetProject(p, add_message(Project(p), "User", message, clock))
            /\ clock' = clock + 1
            /\ response' = [op |-> "send_message", code |-> 200, project_id |-> p]
    /\ UNCHANGED << threads, reader >>

\* ------------------------------------------------------------- project_status
\* lines 175-185: the lookup, then the reads of status, current_agent,
\* started_at and completed_at that build the first part of the response;
\* code 0 marks a response still being built. Nothing holds the thread of
\* the project back between these reads and the two of lines 186-187.
ProjectStatusBegin(p) ==
    /\ ~ (response.op = "project_status" /\ response.code = 0)
    /\ response' = IF p \notin DOMAIN active_projects
                   THEN [op |-> "project_status", code |-> 404, project_id |-> p]
                   ELSE [op |-> "project_status", code |-> 0, project_id |-> p,
                         status |-> Project(p).status,
                         current_agent |-> Project(p).current_agent,
                         started_at |-> Project(p).started_at,
                         completed_at |-> Project(p).completed_at]
    /\ UNCHANGED << active_projects, threads, clock, nposts, reader >>

\* the handler as it would be if it left the initial System message out of
\* message_count
ProjectStatusCountsStageMessages(p) ==
    /\ response.op = "project_status"
    /\ response.code = 0
    /\ response.project_id = p
    /\ response' = [op |-> "project_status", code |-> 200, project_id |-> p,
                    status |-> response.status,
                    current_agent |-> response.current_agent,
                    started_at |-> response.started_at,
                    completed_at |-> response.completed_at,
                    message_count |-> Len(Project(p).messages) - 1,
                    artifact_count |-> Cardinality(DOMAIN Project(p).artifacts)]
    /\ UNCHANGED << active_projects, threads, clock, nposts, reader >>

\* lines 186-187: len(project.messages), len(project.artifacts), and the
\* response is returned
ProjectStatusEnd(p) ==
    /\ response.op = "project_status"
    /\ response.code = 0
    /\ response.project_id = p
    /\ response' = [op |-> "project_status", code |-> 200, project_id |-> p,
                    status |-> response.status,
                    current_agent |-> response.current_agent,
                    started_at |-> response.started_at,
                    completed_at |-> response.completed_at,
                    message_count |-> Len(Project(p).messages),
                    artifact_count |-> Cardinality(DOMAIN Project(p).artifacts)]
    /\ UNCHANGED << active_projects, threads, clock, nposts, reader >>

\* ------------------------------------------------------------- project_messages
\* the handler as it would be if it returned the log's length for the cursor
project_messages_len(project, last_id) ==
    [ messages |-> PySliceFrom(project.messages, last_id),
      last_id |-> Len(project.messages) ]

\* the handler as it would be if last_id were the index of the last message seen
project_messages_after(project, last_id) ==
    LET new_messages == PySliceFrom(project.messages, last_id + 1)
    IN  [ messages |-> new_messages, last_id |-> last_id + Len(new_messages) ]

\* lines 201-208: new_messages = project.messages[last_id:] and the body
project_messages(project, last_id) ==
    LET new_messages == PySliceFrom(project.messages, last_id)
    IN  [ messages |-> new_messages, last_id |-> last_id + Len(new_messages) ]

\* lines 190-208, a request with last_id = c
ProjectMessages(p, c) ==
    /\ IF p \notin DOMAIN active_projects
       THEN response' = [op |-> "project_messages", code |-> 404, project_id |-> p]
       ELSE response' = [op |-> "project_messages", code |-> 200, project_id |-> p,
                         request |-> c, body |-> project_messages(Project(p), c)]
    /\ UNCHANGED << active_projects, threads, clock, nposts, reader >>

\* the client of a project: it polls with the cursor the last response
\* carried and keeps what it is sent
ReaderPoll(p) ==
    /\ p \in DOMAIN reader
    /\ p \in DOMAIN active_projects
    /\ LET body == project_messages(Project(p), reader[p].cursor)
       IN  reader' = [reader EXCEPT ![p] =
                        [cursor |-> body.last_id,
                         received |-> reader[p].received \o body.messages]]
    /\ UNCHANGED << active_projects, threads, clock, nposts, response >>

\* ------------------------------------------------------------- project_artifacts, get_artifact
\* project_artifacts as it would be with active_projects.get(project_id)
\* and an empty answer for a project that is not there
ProjectArtifactsLenient(p) ==
    /\ response' = [op |-> "project_artifacts", code |-> 200, project_id |-> p,
                    artifacts |-> IF p \in DOMAIN active_projects
                                  THEN Project(p).artifacts ELSE EmptyDict]
    /\ UNCHANGED << active_projects, threads, clock, nposts, reader >>

\* lines 236-247
ProjectArtifacts(p) ==
    /\ IF p \notin DOMAIN active_projects
       THEN response' = [op |-> "project_artifacts", code |-> 404, project_id |-> p]
       ELSE response' = [op |-> "project_artifacts", code |-> 200, project_id |-> p,
                         artifacts |-> Project(p).artifacts]
    /\ UNCHANGED << active_projects, threads, clock, nposts, reader >>

\* the names a client asks get_artifact for: the two the stages produce and
\* one no stage produces
ArtifactQueries == {"requirements_doc", "erd", "project_report"}

\* get_artifact as it would be with project.artifacts.get(artifact_name, {})
\* for the test of the name
GetArtifactDefault(p, artifact_name) ==
    /\ IF p \notin DOMAIN active_projects
       THEN response' = [op |-> "get_artifact", code |-> 404, project_id |-> p,
                         artifact_name |-> artifact_name,
                         error |-> "Project not found"]
       ELSE response' = [op |-> "get_artifact", code |-> 200, project_id |-> p,
                         artifact_name |-> artifact_name,
                         artifact |-> IF artifact_name \in DOMAIN Project(p).artifacts
                                      THEN Project(p).artifacts[artifact_name]
                                      ELSE EmptyDict]
    /\ UNCHANGED << active_projects, threads, clock, nposts, reader >>

\* lines 249-266
GetArtifact(p, artifact_name) ==
    /\ IF p \notin DOMAIN active_projects
       THEN response' = [op |-> "get_artifact", code |-> 404, project_id |-> p,
                         artifact_name |-> artifact_name,
                         error |-> "Project not found"]
       ELSE IF artifact_name \notin DOMAIN Project(p).artifacts
       THEN response' = [op |-> "get_artifact", code |-> 404, project_id |-> p,
                         artifact_name |-> artifact_name,
                         error |-> "Artifact not found"]
       ELSE response' = [op |-> "get_artifact", code |-> 200, project_id |-> p,
                         artifact_name |-> artifact_name,
                         artifact |-> Project(p).artifacts[artifact_name]]
    /\ UNCHANGED << active_projects, threads, clock, nposts, reader >>

\* ------------------------------------------------------------- ProjectState, called directly
Senders == {"User", "System"}
ArtifactInputs == { StageArtifact(stage) : stage \in 1..3 }

\* project.add_message(sender, content)
AddMessageCall(p, sender, content) ==
    /\ p \in DOMAIN active_projects
    /\ clock < MaxClock
    /\ SetProject(p, add_message(Project(p), sender, content, clock))
    /\ clock' = clock + 1
    /\ response' = [op |-> "add_message", ret |-> None]
    /\ UNCHANGED << threads, nposts, reader >>

\* project.add_artifact(name, content, artifact_type, agent): returns None
AddArtifactCall(p, a) ==
    /\ p \in DOMAIN active_projects
    /\ clock < MaxClock
    /\ SetProject(p, add_artifact(Project(p), a.name, a.content, a.type,
                                  a.created_by, clock))
    /\ clock' = clock + 1
    /\ response' = [op |-> "add_artifact", ret |-> None, name |-> a.name,
                    content |-> a.content]
    /\ UNCHANGED << threads, nposts, reader >>

\* the statement of lines 101-107 on an artifact a
MergeArtifactCall(p, a) ==
    /\ p \in DOMAIN active_projects
    /\ clock < MaxClock
    /\ SetProject(p, merge_artifact(Project(p), a, clock))
    /\ clock' = IF a.name \notin DOMAIN Project(p).artifacts THEN clock + 1 ELSE clock
    /\ response' = [op |-> "merge_artifact", ret |-> None, name |-> a.name,
                    content |-> a.content]
    /\ UNCHANGED << threads, nposts, reader >>

\* ------------------------------------------------------------- specification
\* the state after the module is imported: no project, no thread
Init ==
    /\ active_projects = EmptyDict
    /\ threads = EmptyDict
    /\ clock = 0
    /\ nposts = 0
    /\ response = [op |-> None, code |-> 0, project_id |-> None]
    /\ reader = EmptyDict

ThreadStep(p) ==
    \/ ThreadBegin(p)
    \/ RunWorkflowNotIterable(p)
    \/ StageYield(p)
    \/ StageRaise(p)
    \/ StopIteration(p)
    \/ SetCurrentAgent(p)
    \/ CheckMessages(p)
    \/ SliceMessages(p)
    \/ AddNextMessage(p)
    \/ MergeArtifact(p)
    \/ UpdateProgress(p)
    \/ SetResult(p)
    \/ SetCompleted(p)
    \/ HandleException(p)
    \/ SetError(p)

Next ==
    \/ \E p \in ProjectIds, r \in Requirements : StartProject(p, r)
    \/ \E p \in ProjectIds : ThreadStep(p)
    \/ \E p \in ProjectIds \cup UnknownIds, m \in UserTexts : SendMessage(p, m)

Spec == Init /\ [][Next]_vars

\* the engine and its clients, one of which polls with its cursor
NextReader ==
    \/ Next
    \/ \E p \in ProjectIds : ReaderPoll(p)

SpecReader == Init /\ [][NextReader]_vars

\* the last response is the answer of a project_status call
StatusAnswered == response.op = "project_status" /\ response.code # 0

\* the engine and its clients up to the answer of a project_status call: the
\* call changes nothing of the registry, so every answer a client can get is
\* the answer that ends one of these behaviours
NextStatus ==
    /\ ~ StatusAnswered
    /\ \/ Next
       \/ \E p \in ProjectIds \cup UnknownIds : ProjectStatusBegin(p)
       \/ \E p \in ProjectIds : ProjectStatusEnd(p)

SpecStatus == Init /\ [][NextStatus]_vars

\* the last response is the answer of one of the handlers that only read
QueryAnswered ==
    /\ response.op \in {"project_status", "project_messages",
                        "project_artifacts", "get_artifact"}
    /\ response.code # 0

\* the engine and its clients up to the answer of one query: the log and
\* the artifacts of any project, one artifact of any project, and the
\* status of a project that is not registered (SpecStatus has the status
\* of the registered ones)
NextQuery ==
    /\ ~ QueryAnswered
    /\ \/ Next
       \/ \E p \in UnknownIds : ProjectStatusBegin(p)
       \/ \E p \in ProjectIds \cup UnknownIds : ProjectMessages(p, 0)
       \/ \E p \in ProjectIds \cup UnknownIds : ProjectArtifacts(p)
       \/ \E p \in ProjectIds \cup UnknownIds, name \in ArtifactQueries :
             GetArtifact(p, name)

SpecQuery == Init /\ [][NextQuery]_vars

\* the ids of two start_project calls
TwoIds == {"p1", "p2"}

\* the messages and artifacts the stages of these threads have returned
RECURSIVE Produced(_, _)
Produced(ts, ids) ==
    IF ids = {} THEN 0
    ELSE LET p == CHOOSE q \in ids : TRUE
         IN  Len(ts[p].wf.messages) + ts[p].wf.writes + Produced(ts, ids \ {p})

\* the thread of project q is not inside a stage of its run: it has not
\* begun, is about to ask the stream for its next step, or has ended
BetweenStages(q) ==
    q \in DOMAIN threads => threads[q].pc \in {"start", "iter", "done", "crashed"}

\* two projects: their start_project calls statement by statement, their
\* threads and the posts to them. The ids are fresh uuids, the first one
\* registered is called "p1"; a thread is switched to while the other one
\* is between two stages; the run stops when the clock reaches MaxTwoClock,
\* and every post and every message or artifact a stage returns takes one
\* more tick of that budget
NextTwo ==
    /\ clock < MaxTwoClock
    /\ \/ \E p \in TwoIds, r \in Requirements :
            /\ p = "p2" => "p1" \in DOMAIN active_projects
            /\ StartRegister(p, r)
       \/ \E p \in TwoIds : StartAddMessage(p)
       \/ \E p \in TwoIds : StartLaunch(p)
       \/ \E p \in TwoIds :
            /\ \A q \in TwoIds \ {p} : BetweenStages(q)
            /\ ThreadStep(p)
       \/ \E p \in TwoIds, m \in UserTexts : SendMessage(p, m)
    /\ clock' + nposts' + Produced(threads', DOMAIN threads') <= MaxTwoClock

SpecTwo == Init /\ [][NextTwo]_vars

\* a ProjectState as ProjectState(project_id, requirements) makes it,
\* registered, with no thread started on it
InitState ==
    /\ \E p \in ProjectIds, r \in Requirements :
          active_projects = (p :> ProjectStateInit(r, 0))
    /\ threads = EmptyDict
    /\ clock = 1
    /\ nposts = 0
    /\ response = [op |-> None, code |-> 0, project_id |-> None]
    /\ reader = EmptyDict

\* the methods of ProjectState and the read of its log, called in any order
NextState ==
    \/ \E p \in ProjectIds, sender \in Senders, m \in UserTexts :
          AddMessageCall(p, sender, m)
    \/ \E p \in ProjectIds, a \in ArtifactInputs : AddArtifactCall(p, a)
    \/ \E p \in ProjectIds, a \in ArtifactInputs : MergeArtifactCall(p, a)
    \/ \E p \in ProjectIds \cup UnknownIds, c \in 0..MaxCursor : ProjectMessages(p, c)

SpecState == InitState /\ [][NextState]_vars

\* ------------------------------------------------------------- properties
\* the states of the project state machine the status strings stand for:
\* "In progress - N% complete" is the running state with its progress
StatusClass(status) ==
    CASE status.name = "initializing" -> "initializing"
      [] status.name \in {"running", "In progress"} -> "running"
      [] status.name = "completed" -> "completed"
      [] status.name = "error" -> "errored"
      [] OTHER -> "unknown"

Terminal(q) == StatusClass(q.status) \in {"completed", "errored"}

IsPrefix(s, t) == Len(s) <= Len(t) /\ SubSeq(t, 1, Len(s)) = s

StagesRun(p) == threads[p].wf.started

\* C1: the status of every project is one of initializing, running,
\* completed, errored; a project is registered as initializing; the status
\* moves only initializing -> running, running -> completed and
\* running -> errored; once completed or errored it stays as it is and no
\* further stage runs.
C1_StatusLifecycle ==
    /\ [](\A p \in DOMAIN active_projects :
            StatusClass(active_projects[p].status)
               \in {"initializing", "running", "completed", "errored"})
    /\ [][\A p \in DOMAIN active_projects' :
            IF p \notin DOMAIN active_projects
            THEN StatusClass(active_projects'[p].status) = "initializing"
            ELSE LET old == StatusClass(active_projects[p].status)
                     new == StatusClass(active_projects'[p].status)
                 IN  /\ old # new =>
                          << old, new >> \in { << "initializing", "running" >>,
                                               << "running", "completed" >>,
                                               << "running", "errored" >> }
                     /\ Terminal(active_projects[p]) =>
                          /\ active_projects'[p].status = active_projects[p].status
                          /\ StagesRun(p)' = StagesRun(p)
         ]_vars

\* C1 witness: a project has run all its stages and is completed, and
\* another step has been taken since
C1_Witness ==
    \E p \in DOMAIN active_projects :
        /\ active_projects[p].status.name = "completed"
        /\ StagesRun(p) = Len(steps)
        /\ active_projects[p].messages[Len(active_projects[p].messages)].timestamp
              > active_projects[p].completed_at

ErrorMessages(p) ==
    { j \in 1..Len(active_projects[p].messages) :
        /\ active_projects[p].messages[j].sender = "System"
        /\ active_projects[p].messages[j].content = << "Error: ", threads[p].err >> }

C3_FrozenAfterTerminal ==
    [][\A p \in DOMAIN active_projects :
         Terminal(active_projects[p]) =>
            /\ active_projects'[p].messages = active_projects[p].messages
            /\ active_projects'[p].artifacts = active_projects[p].artifacts]_vars

\* C3 amended: from a terminal status on, the engine adds no message and no
\* artifact; the artifact store stays exactly as it is and the log grows
\* only by the User message of a send_message call.
C3_OnlyPostsAfterTerminal ==
    [][\A p \in DOMAIN active_projects :
         Terminal(active_projects[p]) =>
            /\ active_projects'[p].artifacts = active_projects[p].artifacts
            /\ threads'[p] = threads[p]
            /\ \/ active_projects'[p].messages = active_projects[p].messages
               \/ /\ nposts' = nposts + 1
                  /\ Len(active_projects'[p].messages)
                        = Len(active_projects[p].messages) + 1
                  /\ IsPrefix(active_projects[p].messages, active_projects'[p].messages)
                  /\ active_projects'[p].messages[Len(active_projects'[p].messages)].sender
                        = "User"]_vars

\* C3 witness: a message was posted after the project had ended in error
C3_Witness ==
    \E p \in DOMAIN active_projects :
        LET log == active_projects[p].messages
        IN  /\ active_projects[p].status.name = "error"
            /\ log[Len(log)].sender = "User"
            /\ log[Len(log) - 1].content = << "Error: ", threads[p].err >>

\* the positions of the log that hold the j-th message of the workflow state
LogPositions(p, j) ==
    { i \in 1..Len(active_projects[p].messages) :
        active_projects[p].messages[i].content = threads[p].wf.messages[j].content }

\* C4 as stated: when the engine has merged the messages of a step, every
\* message the stages have returned so far is in the log, in the order
\* returned.
C4_StageMessagesAppended ==
    \A p \in DOMAIN threads :
        threads[p].pc \in {"arts", "status"} =>
            /\ \A j \in 1..Len(threads[p].wf.messages) : LogPositions(p, j) # {}
            /\ \A j1, j2 \in 1..Len(threads[p].wf.messages) :
                 j1 < j2 => \A i1 \in LogPositions(p, j1), i2 \in LogPositions(p, j2) :
                               i1 < i2

\* C5 as stated, for the run that has ended: a thread that has ended without
\* any stage having failed leaves its project completed, with the result set.
C5_NoFailureCompletes ==
    \A p \in DOMAIN threads :
        (threads[p].pc = "done" /\ threads[p].err \notin FailureDescs) =>
            /\ active_projects[p].status = Status("completed")
            /\ active_projects[p].result # None

\* C7: no engine step changes or removes an artifact that is in the store:
\* content, kind, producing stage and timestamp stay as first written, also
\* when a later stage reports the same name.
C7_ArtifactsImmutable ==
    [][\A p \in DOMAIN active_projects :
         \A n \in DOMAIN active_projects[p].artifacts :
            /\ n \in DOMAIN active_projects'[p].artifacts
            /\ active_projects'[p].artifacts[n] = active_projects[p].artifacts[n]]_vars

\* C7 witness: the merge of a step is over, and the workflow state holds
\* under a stored name the content a later stage reported
C7_Witness ==
    \E p \in DOMAIN threads :
        /\ threads[p].pc = "status"
        /\ \E j \in 1..Len(threads[p].wf.artifacts) :
             LET a == threads[p].wf.artifacts[j]
             IN  /\ a.name \in DOMAIN active_projects[p].artifacts
                 /\ active_projects[p].artifacts[a.name].content # a.content
                 /\ active_projects[p].artifacts[a.name].created_by # a.created_by

\* C10: in every step the old log of a project is a prefix of the new one.
C10_LogAppendOnly ==
    [][\A p \in DOMAIN active_projects :
         IsPrefix(active_projects[p].messages, active_projects'[p].messages)]_vars

\* C10 witness: the log holds the initial message, a stage's message, a
\* posted message and the error message
C10_Witness ==
    \E p \in DOMAIN active_projects :
        LET log == active_projects[p].messages
        IN  /\ Len(log) >= 4
            /\ \E i \in 1..Len(log) : log[i].sender = "User" /\ log[i].content \in UserTexts
            /\ \E i \in 1..Len(log) : log[i].sender \in { steps[j] : j \in 1..Len(steps) }
            /\ log[Len(log)].content = << "Error: ", threads[p].err >>

\* C6 as stated, for add_artifact called on a project: a call with a new
\* name returns true and stores the content, a call with a name in the
\* store returns false and changes nothing.
C6_AddArtifactFirstWins ==
    [][\A p \in DOMAIN active_projects, a \in ArtifactInputs :
         AddArtifactCall(p, a) =>
            IF a.name \in DOMAIN active_projects[p].artifacts
            THEN /\ response'.ret = "False"
                 /\ active_projects'[p].artifacts = active_projects[p].artifacts
            ELSE /\ response'.ret = "True"
                 /\ active_projects'[p].artifacts[a.name].content = a.content]_vars

\* C6 amended: the engine's guarded add (lines 101-107) stores an artifact
\* whose name is new and leaves the store as it is when the name is there,
\* so of two with one name the content stored is the first's.
C6_GuardedAddFirstWins ==
    [][\A p \in DOMAIN active_projects, a \in ArtifactInputs :
         MergeArtifactCall(p, a) =>
            LET old == active_projects[p].artifacts
                new == active_projects'[p].artifacts
            IN  IF a.name \in DOMAIN old
                THEN new = old
                ELSE /\ DOMAIN new = DOMAIN old \cup {a.name}
                     /\ new[a.name].content = a.content
                     /\ new[a.name].type = a.type
                     /\ new[a.name].created_by = a.created_by
                     /\ \A n \in DOMAIN old : new[n] = old[n]]_vars

\* C6 witness: a guarded add of a name that is stored with another content
\* has been made, and the stored content is still the other one
C6_Witness ==
    \E p \in DOMAIN active_projects :
        /\ response.op = "merge_artifact"
        /\ response.name \in DOMAIN active_projects[p].artifacts
        /\ active_projects[p].artifacts[response.name].content # response.content

\* C8: a request with cursor c on a log of n messages returns the messages
\* at positions c..n-1 in log order when c <= n, none when c >= n, and the
\* cursor c plus the number of messages returned.
C8_MessagesSinceCursor ==
    [][\A p \in DOMAIN active_projects, c \in 0..MaxCursor :
         ProjectMessages(p, c) =>
            LET log == active_projects[p].messages
                got == response'.body.messages
            IN  /\ response'.code = 200
                /\ c <= Len(log) =>
                      /\ Len(got) = Len(log) - c
                      /\ \A j \in 1..Len(got) : got[j] = log[c + j]
                /\ c >= Len(log) => got = << >>
                /\ response'.body.last_id = c + Len(got)]_vars

\* C8 witness: a request with a cursor inside the log has returned two or
\* more messages, and one beyond the log has returned none
C8_Witness ==
    /\ response.op = "project_messages"
    /\ response.code = 200
    /\ \/ response.request >= 1 /\ Len(response.body.messages) >= 2
       \/ /\ response.request > Len(active_projects[response.project_id].messages)
          /\ Len(active_projects[response.project_id].messages) >= 2

\* C9: what a client polling with the returned cursor has received is the
\* log up to its cursor, each message once and in log order, and a poll
\* brings it every message the log holds.
C9_ReaderSeesLogOnce ==
    /\ [](\A p \in DOMAIN reader :
            /\ reader[p].cursor = Len(reader[p].received)
            /\ IsPrefix(reader[p].received, active_projects[p].messages))
    /\ [][\A p \in DOMAIN reader :
            ReaderPoll(p) => reader'[p].received = active_projects[p].messages]_vars

\* C9 witness: the client has received the initial message, a posted one
\* and a stage's, and the engine has appended more since its last poll
C9_Witness ==
    \E p \in DOMAIN reader :
        LET got == reader[p].received
        IN  /\ Len(got) >= 3
            /\ \E i \in 1..Len(got) : got[i].content \in UserTexts
            /\ \E i \in 1..Len(got) : got[i].sender \in { steps[j] : j \in 1..Len(steps) }
            /\ Len(active_projects[p].messages) > Len(got)
            /\ threads[p].pc = "done"

\* a step of the model that is a send_message call answered with 200 for p
Posted(p) ==
    /\ nposts' = nposts + 1
    /\ response'.op = "send_message"
    /\ response'.code = 200
    /\ response'.project_id = p

\* C11: a send_message call on a registered project appends exactly one
\* message, sent by "User" and carrying the posted text, to that project's
\* log and leaves the project's status, current_agent, artifacts,
\* completed_at and result as they were.
C11_PostAppendsOneMessage ==
    [][\A p \in DOMAIN active_projects :
         Posted(p) =>
            LET before == active_projects[p]
                after == active_projects'[p]
                last == after.messages[Len(after.messages)]
            IN  /\ Len(after.messages) = Len(before.messages) + 1
                /\ IsPrefix(before.messages, after.messages)
                /\ last.sender = "User"
                /\ last.content \in UserTexts
                /\ after.status = before.status
                /\ after.current_agent = before.current_agent
                /\ after.artifacts = before.artifacts
                /\ after.completed_at = before.completed_at
                /\ after.result = before.result
                /\ after.requirements = before.requirements
                /\ after.started_at = before.started_at]_vars

\* C11 witness: the last call answered was a post that landed in the log of
\* a project whose engine is in the middle of merging a step
C11_Witness ==
    \E p \in DOMAIN active_projects :
        LET log == active_projects[p].messages
        IN  /\ response.op = "send_message"
            /\ response.code = 200
            /\ response.project_id = p
            /\ log[Len(log)].sender = "User"
            /\ log[Len(log)].content \in UserTexts
            /\ threads[p].pc = "arts"
            /\ active_projects[p].status.name = "In progress"

\* the last response is the answer 200 of a project_status call for p
StatusOf(p) ==
    /\ response.op = "project_status"
    /\ response.code = 200
    /\ response.project_id = p

\* the pairs (current_agent, status) a project holds between two merges:
\* before the first step, after the merge of the k-th step, and at the end
BetweenMerges ==
    { [current_agent |-> None, status |-> Status(n)] :
         n \in {"initializing", "running", "error"} }
    \cup { [current_agent |-> steps[k],
            status |-> InProgress(Progress(SubSeq(steps, 1, k)))] :
            k \in 1..Len(steps) }
    \cup { [current_agent |-> steps[k], status |-> Status("error")] :
            k \in 1..Len(steps) }
    \cup { [current_agent |-> steps[Len(steps)], status |-> Status("completed")] }

\* C12 as stated: the merge of one step is atomic for readers, every answer
\* of project_status shows the project as it was before the merge or as it
\* is after it: the current_agent and the status of the answer are a pair
\* the project holds between two merges.
C12_StatusAnswerBetweenMerges ==
    \A p \in DOMAIN active_projects :
        StatusOf(p) =>
           [current_agent |-> response.current_agent, status |-> response.status]
              \in BetweenMerges

\* C13: when the status of a project_status answer is a terminal one
\* (completed or error), its message_count is at least the number of
\* messages the log held when the thread set that status.
C13_TerminalStatusCountsLog ==
    \A p \in DOMAIN active_projects :
        (StatusOf(p) /\ StatusClass(response.status) \in {"completed", "errored"})
           => response.message_count >= threads[p].len_at_end

\* C13 witness: an answer with status completed whose message_count also
\* counts a message posted after the status was set
C13_Witness ==
    \E p \in DOMAIN active_projects :
        /\ StatusOf(p)
        /\ response.status.name = "completed"
        /\ threads[p].len_at_end >= 2
        /\ response.message_count = threads[p].len_at_end + 1

\* C14 as stated: the mutations of one project are serialized, no
\* send_message call appends to the log of a project while its thread is
\* between the read of the log's length (app.py:92) and the last append of
\* the merge (app.py:96).
C14_MergeNotInterleaved ==
    [][\A p \in DOMAIN threads :
         threads[p].pc \in {"msgs_slice", "msgs_add"} => ~ Posted(p)]_vars

\* the results of the stages run so far are in the project: its
\* current_agent and progress are those of the last stage run, every message
\* and every artifact the stages returned is in the log and in the store
StagesMerged(p) ==
    LET n == StagesRun(p)
        wf == threads[p].wf
    IN  n > 0 =>
          /\ active_projects[p].current_agent = steps[n]
          /\ active_projects[p].status = InProgress(Progress(SubSeq(steps, 1, n)))
          /\ \A j \in 1..Len(wf.messages) : LogPositions(p, j) # {}
          /\ \A k \in 1..Len(wf.artifacts) :
                wf.artifacts[k].name \in DOMAIN active_projects[p].artifacts

\* C15 as stated: the stages of a project run one at a time, and a stage
\* starts only when the results of the stages before it (artifacts,
\* messages and progress) are merged into the project.
C15_StageStartsAfterMerge ==
    [][\A p \in DOMAIN threads :
         StagesRun(p)' > StagesRun(p) =>
            /\ StagesRun(p)' = StagesRun(p) + 1
            /\ StagesMerged(p)]_vars

\* C16 as stated: while the status of a project is running, its
\* current_agent is the name of the stage started last, the first stage's
\* name from the moment the status becomes running; it is never None or
\* empty.
C16_CurrentAgentIsStartedStage ==
    \A p \in DOMAIN threads :
        StatusClass(active_projects[p].status) = "running" =>
           /\ active_projects[p].current_agent \notin {None, ""}
           /\ active_projects[p].current_agent =
                 steps[IF StagesRun(p) = 0 THEN 1 ELSE StagesRun(p)]

\* the place of a current_agent value in the pipeline, 0 for None
StageIndex(agent) ==
    IF \E k \in 1..Len(steps) : steps[k] = agent
    THEN CHOOSE k \in 1..Len(steps) : steps[k] = agent
    ELSE IF agent = None THEN 0 ELSE -1

\* C17 as stated: the values of current_agent follow the order of the
\* seven stages, each change moves it to the next stage of the pipeline
\* (the first one from None), and the thread that has completed the last
\* stage ends by setting completed, with current_agent left at the last
\* stage.
C17_CurrentAgentFollowsPipeline ==
    [][\A p \in DOMAIN threads :
         /\ active_projects'[p].current_agent # active_projects[p].current_agent
               => /\ StageIndex(active_projects[p].current_agent) >= 0
                  /\ StageIndex(active_projects'[p].current_agent)
                        = StageIndex(active_projects[p].current_agent) + 1
         /\ ( /\ threads[p].pc # "done"
              /\ threads'[p].pc = "done"
              /\ Len(threads'[p].wf.completed_steps) = Len(steps) )
               => /\ active_projects'[p].status = Status("completed")
                  /\ active_projects'[p].current_agent = steps[Len(steps)]]_vars

\* C18: the progress the thread publishes at the end of the merge of a
\* step is floor(completed * 100 / 7), where completed is the number of
\* stages that have completed, and no other progress is ever published.
C18_ProgressIsFloorOfShare ==
    [][\A p \in DOMAIN threads :
         LET completed == StagesRun(p)
             floor == (completed * 100) \div 7
         IN  /\ (threads[p].pc = "status" /\ threads'[p].pc = "iter")
                  => /\ completed = Len(threads[p].wf.completed_steps)
                     /\ completed \in 1..7
                     /\ active_projects'[p].status = InProgress(floor)
             /\ ( /\ active_projects'[p].status # active_projects[p].status
                  /\ active_projects'[p].status.name = "In progress" )
                  => active_projects'[p].status.pct = floor]_vars

\* C18 witness: six stages have completed and the progress published for
\* them is 85, the floor of 85.71
C18_Witness ==
    \E p \in DOMAIN threads :
        /\ threads[p].pc = "iter"
        /\ Len(threads[p].wf.completed_steps) = 6
        /\ active_projects[p].status = InProgress(85)

\* C19: the progress a project publishes never goes down: a status with a
\* progress is followed by a status with a progress at least as high, or
\* by completed or error, after which no progress is published.
C19_ProgressNeverDecreases ==
    [][\A p \in DOMAIN active_projects :
         LET before == active_projects[p].status
             after == active_projects'[p].status
         IN  /\ before.name = "In progress"
                  => \/ after.name = "In progress" /\ after.pct >= before.pct
                     \/ after.name \in {"completed", "error"}
             /\ before.name \in {"completed", "error"}
                  => after.name # "In progress"]_vars

\* C19 witness: a project whose thread has published a third progress, 42,
\* after 14 and 28
C19_Witness ==
    \E p \in DOMAIN threads :
        /\ active_projects[p].status = InProgress(42)
        /\ StagesRun(p) = 3

\* C20 as stated: a project shows the progress 100 only while its status
\* is completed, never with a status that is still in progress or is error.
C20_FullProgressOnlyCompleted ==
    \A p \in DOMAIN active_projects :
        active_projects[p].status.pct = 100
           => StatusClass(active_projects[p].status) = "completed"

\* the thread of p has had a stage fail (not the TypeError of the for
\* statement)
StageFailed(p) == threads[p].err \in FailureDescs

ProducedOnlyFrom(name, k) ==
    \A stage \in 1..Len(steps) : ArtifactName(stage) = name => stage >= k

\* C22: once the k-th stage has failed, every artifact in the store of the
\* project is one a stage before the k-th produced, and get_artifact for
\* a name that no stage before the k-th produces answers 404.
C22_ArtifactsOfEarlierStages ==
    \A p \in DOMAIN threads :
        StageFailed(p) =>
           LET k == StagesRun(p)
               artifacts == active_projects[p].artifacts
           IN  /\ \A n \in DOMAIN artifacts :
                     \E j \in 1..(k - 1) :
                        /\ ArtifactName(j) = n
                        /\ artifacts[n].created_by = steps[j]
                        /\ artifacts[n].content = StageArtifact(j).content
               /\ ( /\ response.op = "get_artifact"
                    /\ response.project_id = p
                    /\ ProducedOnlyFrom(response.artifact_name, k) )
                     => /\ response.code = 404
                        /\ response.error = "Artifact not found"

\* C22 witness: the second stage has failed, the store holds the artifact
\* of the first stage, and get_artifact for the name the second stage
\* produces was answered 404
C22_Witness ==
    \E p \in DOMAIN threads :
        /\ StageFailed(p)
        /\ StagesRun(p) = 2
        /\ threads[p].pc = "done"
        /\ DOMAIN active_projects[p].artifacts = {ArtifactName(1)}
        /\ response.op = "get_artifact"
        /\ response.project_id = p
        /\ response.artifact_name = ArtifactName(2)
        /\ response.code = 404

\* a step of the model that is a call of one of the five handlers for the
\* project id u
HandlerCalled(u) ==
    \/ ProjectStatusBegin(u)
    \/ ProjectMessages(u, 0)
    \/ ProjectArtifacts(u)
    \/ \E name \in ArtifactQueries : GetArtifact(u, name)
    \/ \E m \in UserTexts : SendMessage(u, m)

\* C23: project_status, project_messages, project_artifacts, get_artifact
\* and send_message called with an id that is not in the registry answer
\* 404 and leave the registry, its projects and their threads as they
\* were; get_artifact for a registered project and a name that is not in
\* its store answers 404 too.
C23_UnknownIdNotFound ==
    [][/\ \A u \in (ProjectIds \cup UnknownIds) \ DOMAIN active_projects :
            HandlerCalled(u) =>
               /\ response'.code = 404
               /\ response'.project_id = u
               /\ active_projects' = active_projects
               /\ threads' = threads
       /\ \A p \in DOMAIN active_projects, name \in ArtifactQueries :
            (GetArtifact(p, name) /\ name \notin DOMAIN active_projects[p].artifacts)
               => /\ response'.code = 404
                  /\ response'.error = "Artifact not found"
                  /\ active_projects' = active_projects]_vars

\* C23 witness: project_artifacts was called with an id that is not
\* registered and answered 404, while a registered project with an
\* artifact in its store is in the middle of its run
C23_Witness ==
    /\ response.op = "project_artifacts"
    /\ response.code = 404
    /\ response.project_id \in UnknownIds
    /\ \E p \in DOMAIN active_projects :
          /\ active_projects[p].artifacts # EmptyDict
          /\ threads[p].pc = "iter"

\* C24: a registered project stays in the registry; a project_status call
\* for it is never answered 404 and ends with the answer 200, also after
\* the project has ended in error; and the message that reports the error
\* is among those project_messages returns for last_id = 0.
C24_ProjectStaysRegistered ==
    /\ [][\A p \in DOMAIN active_projects :
            /\ p \in DOMAIN active_projects'
            /\ ProjectStatusBegin(p) => (response'.code # 404 /\ response'.project_id = p)
            /\ ProjectStatusEnd(p) => (response'.code = 200 /\ response'.project_id = p)]_vars
    /\ [](\A p \in DOMAIN threads :
            threads[p].pc = "done" /\ threads[p].err # None =>
               /\ p \in DOMAIN active_projects
               /\ active_projects[p].status = Status("error")
               /\ \E i \in 1..Len(project_messages(active_projects[p], 0).messages) :
                     LET m == project_messages(active_projects[p], 0).messages[i]
                     IN  m.sender = "System" /\ m.content = << "Error: ", threads[p].err >>)

\* C24 witness: a project_status call for a project that has ended in
\* error, made after a message was posted to it, was answered 200 with
\* the status error
C24_Witness ==
    \E p \in DOMAIN active_projects :
        /\ StatusOf(p)
        /\ threads[p].pc = "done"
        /\ response.status = Status("error")
        /\ response.message_count = 3
        /\ active_projects[p].messages[3].sender = "User"

\* C25 as stated: completed_at and result of a project are absent while
\* its status is not a terminal one and present once it is completed or
\* error.
C25_EndFieldsFollowStatus ==
    \A p \in DOMAIN active_projects :
        LET q == active_projects[p]
        IN  IF Terminal(q)
            THEN q.completed_at # NoTime /\ q.result # None
            ELSE q.completed_at = NoTime /\ q.result = None

\* C26: every registered project has one thread, which start_project
\* launches in the call that creates the project; no step puts a thread back
\* to its beginning or gives a project another one, a call of send_message
\* or of a reading handler leaves the threads as they are, and the number of
\* stages a thread has started only grows, up to the seven of the pipeline:
\* the thread never goes back to a stage it has started.
C26_OneThreadPerProject ==
    /\ [](DOMAIN threads = DOMAIN active_projects)
    /\ [][\A p \in ProjectIds \cup UnknownIds :
            /\ p \in DOMAIN threads =>
                  /\ p \in DOMAIN threads'
                  /\ threads'[p].pc = "start" => threads[p].pc = "start"
                  /\ StagesRun(p)' >= StagesRun(p)
                  /\ StagesRun(p)' <= Len(steps)
            /\ (p \notin DOMAIN threads /\ p \in DOMAIN threads') =>
                  /\ p \notin DOMAIN active_projects
                  /\ \E r \in Requirements : StartProject(p, r)
                  /\ threads'[p] = ThreadInit
            /\ HandlerCalled(p) => threads' = threads]_vars

\* a thread that has run its seven stages to the end, with a post and the
\* answer of a query behind it
C26_Witness ==
    \E p \in DOMAIN threads :
        /\ threads[p].pc = "done"
        /\ StagesRun(p) = Len(steps)
        /\ nposts > 0
        /\ QueryAnswered /\ response.code = 200 /\ response.project_id = p

\* what the clients see of project p
ProjectView(p) ==
    IF p \in DOMAIN active_projects
    THEN [ status |-> Project(p).status,
           current_agent |-> Project(p).current_agent,
           messages |-> Project(p).messages,
           artifacts |-> Project(p).artifacts ]
    ELSE None

\* C27: a step of the thread of project a (a stage, its failure, a merge,
\* the end) or a post to a leaves the status, the current agent, the log
\* and the artifacts of every other project b as they are, and b's thread
\* too; once a's thread has met an exception, b's thread still has a step
\* to take until it has ended, and it ends with b in a terminal status.
C27_ProjectsIsolated ==
    /\ [][\A a \in TwoIds : \A b \in TwoIds \ {a} :
            (ThreadStep(a) \/ \E m \in UserTexts : SendMessage(a, m)) =>
                /\ ProjectView(b)' = ProjectView(b)
                /\ b \in DOMAIN threads =>
                      (b \in DOMAIN threads' /\ threads'[b] = threads[b])]_vars
    /\ [](\A a \in DOMAIN threads : \A b \in DOMAIN threads \ {a} :
            threads[a].err # None =>
                /\ threads[b].pc # "done" => ENABLED ThreadStep(b)
                /\ threads[b].pc = "done" => Terminal(Project(b)))

\* a stage of one project has failed and its status is error; the other
\* project has run its seven stages and completed
C27_Witness ==
    \E a \in DOMAIN threads : \E b \in DOMAIN threads \ {a} :
        /\ StageFailed(a)
        /\ StatusClass(Project(a).status) = "errored"
        /\ threads[b].pc = "done"
        /\ StatusClass(Project(b).status) = "completed"

\* the entries of a log that a stage's message made, without their
\* timestamps (the stages' contents begin with "stage")
StageEntries(log) ==
    LET FromStage(entry) == entry.content[1] = "stage"
        made == SelectSeq(log, FromStage)
    IN  [i \in 1..Len(made) |-> [sender |-> made[i].sender,
                                 content |-> made[i].content]]

\* state["messages"] as the step of stage s carried it
MessagesOfStep(wf, s) ==
    LET UpTo(msg) == msg.content[2] <= s
    IN  SelectSeq(wf.messages, UpTo)

\* lines 91-96 on a log with no timestamps
MergeMessages(log, messages, current_agent) ==
    IF Len(messages) > 0 /\ Len(messages) > Len(log)
    THEN LET new_messages == PySliceFrom(messages, Len(log))
         IN  log \o [i \in 1..Len(new_messages) |->
                       [sender |-> IF new_messages[i].type = "human" THEN "User"
                                   ELSE current_agent,
                        content |-> new_messages[i].content]]
    ELSE log

\* the log of the run in which the stages return what they returned in wf
\* and nobody posts, after the merge of the steps s..k
RECURSIVE PostFreeLog(_, _, _, _)
PostFreeLog(wf, s, k, log) ==
    IF s > k THEN log
    ELSE PostFreeLog(wf, s + 1, k,
                     MergeMessages(log, MessagesOfStep(wf, s), steps[s]))

\* C28 as stated: the stage messages in the log of a run that has ended are
\* those of the run with the same stage outputs and no post, in the same
\* order.
C28_StageLogIndependentOfPosts ==
    \A p \in DOMAIN threads :
        threads[p].pc = "done" =>
            StageEntries(Project(p).messages) =
                StageEntries(PostFreeLog(threads[p].wf, 1,
                                Len(threads[p].wf.completed_steps),
                                << [sender |-> "System", content |-> InitialMessage] >>))

\* C29: a thread exists only for a project that start_project has
\* registered and whose log holds the initial message, whatever the order
\* in which the statements of two start_project calls and the steps of the
\* threads run; the lookup active_projects[project_id] of line 66 finds the
\* project, no thread ends on its KeyError.
C29_ThreadFindsProject ==
    /\ [](\A p \in DOMAIN threads :
            /\ p \in DOMAIN active_projects
            /\ HasInitialMessage(active_projects[p])
            /\ threads[p].pc # "crashed")
    /\ [][\A p \in TwoIds :
            ThreadBegin(p) => (p \in DOMAIN active_projects
                               /\ threads'[p].pc = "iter")]_vars

\* the threads of two projects have both made their lookup, and the second
\* project was registered before the first call had appended its initial
\* message
C29_Witness ==
    /\ \A p \in TwoIds : p \in DOMAIN threads /\ threads[p].pc # "start"
    /\ \E i \in 1..Len(active_projects["p1"].messages) :
          /\ active_projects["p1"].messages[i].content = InitialMessage
          /\ active_projects["p2"].started_at
                < active_projects["p1"].messages[i].timestamp

\* C30: the progress of every status that carries one is an integer from
\* 0 to 100, and the completed_steps a thread counts are never more than the
\* seven entries of workflow_steps.
C30_ProgressWithinBounds ==
    /\ \A p \in DOMAIN active_projects :
          active_projects[p].status.name = "In progress" =>
              active_projects[p].status.pct \in 0..100
    /\ \A p \in DOMAIN threads :
          Len(threads[p].wf.completed_steps) <= Len(workflow_steps)

\* the seven steps are counted and the progress published for them is the
\* upper end of the range
C30_Witness ==
    \E p \in DOMAIN threads :
        /\ Len(threads[p].wf.completed_steps) = Len(workflow_steps)
        /\ active_projects[p].status = InProgress(100)

====
